---- MODULE Spec2Model ----
(***************************************************************************)
(* A model of the BetterMode gateway (src/main.go): the TokenManager with  *)
(* its sync.RWMutex, the upstream client fetchContentFromBetterMode and    *)
(* the three HTTP handlers, run by the main goroutine and by concurrent    *)
(* handler goroutines.                                                     *)
(*                                                                         *)
(* Time is counted in minutes.  The empty string token is 0, the tokens    *)
(* the upstream issues are 1..NumTokens.                                   *)
(***************************************************************************)
EXTENDS Naturals, Integers, FiniteSets, Sequences, TLC

\* ------------------------------------------------------------ bounds
NumHandlers == 2        \* concurrent handler goroutines
NumTokens   == 2        \* distinct token values the upstream may issue
MaxTicks    == 1        \* how many times the clock advances
MaxUnauth   == 2        \* how many 401 answers one POST /content may receive

\* ------------------------------------------------- program constants
BufferMinutes == 5      \* 5*time.Minute, GetToken
ExpiryMinutes == 1440   \* 24*time.Hour, RefreshToken
StatusOK == 200
StatusBadRequest == 400
StatusUnauthorized == 401
StatusInternalServerError == 500

Main     == 0
Handlers == 1..NumHandlers
Procs    == {Main} \cup Handlers
None     == 99          \* "no goroutine" (the write lock is free)

Tokens == 1..NumTokens

\* The domain main() passes to NewTokenManager, another one a caller could
\* pass, and the domain written in RefreshToken's GraphQL query.
MainDomain       == "www.gpters.org"
Domains          == {"www.gpters.org", "community.example.com"}
TokenQueryDomain == "www.gpters.org"

VARIABLES
    accessToken,    \* tm.accessToken (0 is "")
    expiry,         \* tm.expiry, in minutes (0 is the zero time.Time)
    networkDomain,  \* tm.networkDomain
    writer,         \* tm.mutex: the goroutine holding the write lock, or None
    readers,        \* tm.mutex: the goroutines holding the read lock
    now,            \* the wall clock, in minutes
    ticks,          \* how often the clock has advanced
    pc,             \* each goroutine's position
    caller,         \* who called RefreshToken: "nt", "gt", "fc", "hr" ("" outside)
    rtErr,          \* RefreshToken's return value is an error
    rtResp,         \* the upstream answer the running RefreshToken received
    saved,          \* the Credential when the running RefreshToken took the lock
    token,          \* fetchContentFromBetterMode's local: GetToken's result
    gtCheck,        \* what the validity check of the running or just returned GetToken call found
    fresh,          \* the goroutines in whose running GetToken call a refresh has stored
    tokReqs,        \* token requests sent by the running or just returned GetToken call
    sent,           \* content requests sent for the current HTTP request
    renewed,        \* the goroutines whose content request was rejected before the Credential was stored
    req,            \* the HTTP request being served
    resp,           \* the HTTP answer written
    input,          \* content processing: the text it started from
    prev,           \* content processing: the argument of the last function applied
    text,           \* content processing: the text as it stands
    applied,        \* content processing: the functions that have returned, in order
    todo            \* cleanupContent: the htmlReplacements keys the range loop has yet to visit

progVars == <<accessToken, expiry, networkDomain, writer, readers, now, ticks, pc,
              caller, rtErr, rtResp, saved, token, gtCheck, fresh, tokReqs, sent, renewed,
              req, resp>>

textVars == <<input, prev, text, applied, todo>>

vars == <<progVars, textVars>>

tmVars    == <<accessToken, expiry, networkDomain>>
lockVars  == <<writer, readers>>
clockVars == <<now, ticks>>

\* ------------------------------------------------ upstream: tokens
\* An answer to the token-issuance request: whether client.Do succeeded,
\* whether io.ReadAll succeeded, the HTTP status, whether the body is JSON,
\* and the accessToken field of the body (0: absent or empty).
NoResp == [net |-> FALSE, read |-> FALSE, status |-> 0, parses |-> FALSE, accessToken |-> 0]

TokenFailures ==
    { [net |-> FALSE, read |-> FALSE, status |-> 0, parses |-> FALSE, accessToken |-> 0],
      [net |-> TRUE, read |-> FALSE, status |-> StatusOK, parses |-> FALSE, accessToken |-> 0],
      [net |-> TRUE, read |-> TRUE, status |-> StatusOK, parses |-> FALSE, accessToken |-> 0],
      [net |-> TRUE, read |-> TRUE, status |-> StatusOK, parses |-> TRUE, accessToken |-> 0],
      [net |-> TRUE, read |-> TRUE, status |-> StatusInternalServerError, parses |-> FALSE,
       accessToken |-> 0] }

TokenIssued ==
    [net : {TRUE}, read : {TRUE}, status : {StatusOK}, parses : {TRUE}, accessToken : Tokens]

TokenNon200 ==
    [net : {TRUE}, read : {TRUE}, status : {StatusInternalServerError}, parses : {TRUE},
     accessToken : Tokens]

TokenResponses == TokenFailures \cup TokenIssued \cup TokenNon200

\* ----------------------------------------------- upstream: content
\* An answer to the post query: transport, status, whether the body is
\* JSON, the value of the "content" mapping field ("" when absent) and the
\* post's title.
ContentResponses ==
    { [net |-> FALSE, status |-> 0, parses |-> FALSE, content |-> "", title |-> ""],
      [net |-> TRUE, status |-> StatusUnauthorized, parses |-> FALSE, content |-> "", title |-> ""],
      [net |-> TRUE, status |-> StatusOK, parses |-> FALSE, content |-> "", title |-> ""],
      [net |-> TRUE, status |-> StatusOK, parses |-> TRUE, content |-> "", title |-> "T"],
      [net |-> TRUE, status |-> StatusOK, parses |-> TRUE, content |-> "c", title |-> "T"],
      [net |-> TRUE, status |-> StatusInternalServerError, parses |-> TRUE, content |-> "c", title |-> ""] }

\* ------------------------------------------------- HTTP requests
NoReq == [op |-> "none", decodes |-> FALSE, post_id |-> "", format |-> ""]

ContentRequests ==
    [op : {"content"}, decodes : {TRUE}, post_id : {"", "p1"},
     format : {"", "html", "text", "xml"}]
    \cup { [op |-> "content", decodes |-> FALSE, post_id |-> "", format |-> ""] }

NoAnswer == [status |-> 0, content |-> "", title |-> "", format |-> "", err |-> ""]

Answer(st, c, t, f, e) == [status |-> st, content |-> c, title |-> t, format |-> f, err |-> e]

\* ---------------------------------------------------------- Init
\* main() has built the TokenManager struct (NewTokenManager, lines 44-46)
\* and is about to call RefreshToken; no handler runs before ListenAndServe.
InitProgram(D) ==
    /\ accessToken = 0
    /\ expiry = 0
    /\ networkDomain \in D
    /\ writer = None
    /\ readers = {}
    /\ now = 0
    /\ ticks = 0
    /\ pc = [p \in Procs |-> IF p = Main THEN "rt_lock" ELSE "idle"]
    /\ caller = [p \in Procs |-> IF p = Main THEN "nt" ELSE ""]
    /\ rtErr = [p \in Procs |-> FALSE]
    /\ rtResp = [p \in Procs |-> NoResp]
    /\ saved = [p \in Procs |-> <<0, 0>>]
    /\ token = [p \in Procs |-> 0]
    /\ gtCheck = [p \in Procs |-> "none"]
    /\ fresh = {}
    /\ tokReqs = [p \in Procs |-> 0]
    /\ sent = [p \in Procs |-> 0]
    /\ renewed = {}
    /\ req = [p \in Procs |-> NoReq]
    /\ resp = [p \in Procs |-> NoAnswer]

\* no content is being processed
NoText ==
    /\ input = <<>>
    /\ prev = <<>>
    /\ text = <<>>
    /\ applied = <<>>
    /\ todo = {}

InitFor(D) == InitProgram(D) /\ NoText

Init == InitFor({MainDomain})

Serving == pc[Main] = "serving"

\* ------------------------------------------------------ sync.RWMutex
\* (mutant) Lock that waits for the readers but not for another writer
C1_CanLockNoExclusion(p) == readers = {}

CanLock(p) == writer = None /\ readers = {}

\* (mutant) RLock that does not wait for the writer
C7_CanRLockIgnoresWriter(p) == TRUE

\* (a reader also waits while a writer is waiting for the lock; no goroutine
\* of this program takes the read lock twice, so that only delays readers)
CanRLock(p) == writer = None

\* --------------------------------------------------------- the clock
\* The clock jumps to the last minute at which a token stored at 0 passes
\* GetToken's check, or to the first at which it does not.
TickSteps == {ExpiryMinutes - BufferMinutes, ExpiryMinutes - BufferMinutes + 1}

Tick(d) ==
    /\ ticks < MaxTicks
    /\ now' = now + d
    /\ ticks' = ticks + 1
    /\ UNCHANGED <<fresh, tmVars, lockVars, pc, caller, rtErr, rtResp, saved, token, gtCheck,
                   tokReqs, sent, renewed, req, resp, textVars>>

\* ------------------------------------------------------ RefreshToken
\* (mutant) a RefreshToken that, called by GetToken, looks at the Credential
\* again once it has the lock and returns at once when it is good
C17_RtLockChecksAgain(p) ==
    /\ pc[p] = "rt_lock"
    /\ CanLock(p)
    /\ IF caller[p] = "gt" /\ accessToken # 0 /\ now + BufferMinutes <= expiry
         THEN /\ caller' = [caller EXCEPT ![p] = ""]
              /\ pc' = [pc EXCEPT ![p] = "gt_rlock2"]
              /\ UNCHANGED <<writer, saved>>
         ELSE /\ writer' = p
              /\ saved' = [saved EXCEPT ![p] = <<accessToken, expiry>>]
              /\ pc' = [pc EXCEPT ![p] = "rt_send"]
              /\ UNCHANGED caller
    /\ UNCHANGED <<fresh, tmVars, readers, clockVars, textVars, rtErr, rtResp, token, gtCheck,
                   tokReqs, sent, renewed, req, resp>>

\* tm.mutex.Lock() (line 74)
RtLock(p) ==
    /\ pc[p] = "rt_lock"
    /\ CanLock(p)
    /\ writer' = p
    /\ saved' = [saved EXCEPT ![p] = <<accessToken, expiry>>]
    /\ pc' = [pc EXCEPT ![p] = "rt_send"]
    /\ UNCHANGED <<fresh, tmVars, readers, clockVars, textVars, caller, rtErr, rtResp, token, gtCheck, tokReqs,
                   sent, renewed, req, resp>>

\* the query is built and sent: client.Do(req) (lines 78-103)
RtSend(p) ==
    /\ pc[p] = "rt_send"
    /\ tokReqs' = [tokReqs EXCEPT ![p] = IF caller[p] = "gt" THEN @ + 1 ELSE @]
    /\ pc' = [pc EXCEPT ![p] = "rt_recv"]
    /\ UNCHANGED <<fresh, tmVars, lockVars, clockVars, textVars, caller, rtErr, rtResp, saved, token,
                   gtCheck, sent, renewed, req, resp>>

\* The checks RefreshToken makes on the answer (lines 104-131): the HTTP
\* status is not among them.
RtRejects(r) == ~r.net \/ ~r.read \/ ~r.parses \/ r.accessToken = 0

\* (mutant) the token of a parsed answer is stored before it is checked
C3_RtRecvStoresFirst(p, r) ==
    /\ pc[p] = "rt_recv"
    /\ rtResp' = [rtResp EXCEPT ![p] = r]
    /\ accessToken' = IF r.net /\ r.read /\ r.parses THEN r.accessToken ELSE accessToken
    /\ IF RtRejects(r)
         THEN /\ rtErr' = [rtErr EXCEPT ![p] = TRUE]
              /\ pc' = [pc EXCEPT ![p] = "rt_unlock"]
         ELSE /\ rtErr' = [rtErr EXCEPT ![p] = FALSE]
              /\ pc' = [pc EXCEPT ![p] = "rt_expiry"]
    /\ UNCHANGED <<fresh, expiry, networkDomain, lockVars, clockVars, textVars, caller, saved, token,
                   gtCheck, tokReqs, sent, renewed, req, resp>>

\* the answer arrives; it is rejected, or its token is stored (line 134)
RtRecv(p, r) ==
    /\ pc[p] = "rt_recv"
    /\ rtResp' = [rtResp EXCEPT ![p] = r]
    /\ IF RtRejects(r)
         THEN /\ rtErr' = [rtErr EXCEPT ![p] = TRUE]
              /\ pc' = [pc EXCEPT ![p] = "rt_unlock"]
              /\ UNCHANGED accessToken
         ELSE /\ rtErr' = [rtErr EXCEPT ![p] = FALSE]
              /\ accessToken' = r.accessToken
              /\ pc' = [pc EXCEPT ![p] = "rt_expiry"]
    /\ UNCHANGED <<fresh, expiry, networkDomain, lockVars, clockVars, textVars, caller, saved, token,
                   gtCheck, tokReqs, sent, renewed, req, resp>>

\* the goroutines inside a GetToken call (lines 56-70)
InGetToken ==
    {q \in Procs : pc[q] \in {"gt_check", "gt_rlock2", "gt_read"} \/ caller[q] = "gt"}

\* the goroutines whose content request was answered 401 and not yet sent again
AwaitingRetry == {q \in Procs : sent[q] >= 1 /\ pc[q] # "fc_recv"}

\* tm.expiry = time.Now().Add(24 * time.Hour) (line 138)
RtExpiry(p) ==
    /\ pc[p] = "rt_expiry"
    /\ expiry' = now + ExpiryMinutes
    /\ fresh' = InGetToken
    /\ renewed' = AwaitingRetry
    /\ pc' = [pc EXCEPT ![p] = "rt_unlock"]
    /\ UNCHANGED <<accessToken, networkDomain, lockVars, clockVars, textVars, caller, rtErr, rtResp,
                   saved, token, gtCheck, tokReqs, sent, req, resp>>

\* (mutant) the write lock is released on the success path only
C18_RtUnlockOnSuccessOnly(p) ==
    /\ pc[p] = "rt_unlock"
    /\ writer' = IF rtErr[p] THEN writer ELSE None
    /\ caller' = [caller EXCEPT ![p] = ""]
    /\ rtErr' = [rtErr EXCEPT ![p] = FALSE]
    /\ rtResp' = [rtResp EXCEPT ![p] = NoResp]
    /\ saved' = [saved EXCEPT ![p] = <<0, 0>>]
    /\ fresh' = IF rtErr[p] THEN fresh \ {p} ELSE fresh
    /\ UNCHANGED <<tmVars, readers, clockVars, textVars>>

\* the deferred tm.mutex.Unlock() (line 75), run as RefreshToken returns
RtUnlock(p) ==
    /\ pc[p] = "rt_unlock"
    /\ writer' = None
    /\ caller' = [caller EXCEPT ![p] = ""]
    /\ rtErr' = [rtErr EXCEPT ![p] = FALSE]
    /\ rtResp' = [rtResp EXCEPT ![p] = NoResp]
    /\ saved' = [saved EXCEPT ![p] = <<0, 0>>]
    /\ fresh' = IF rtErr[p] THEN fresh \ {p} ELSE fresh
    /\ UNCHANGED <<tmVars, readers, clockVars, textVars>>

\* (mutant) NewTokenManager ends the process when its RefreshToken fails
C11_NtRetFatal(p) ==
    /\ caller[p] = "nt"
    /\ RtUnlock(p)
    /\ pc' = [pc EXCEPT ![p] = IF rtErr[p] THEN "exited" ELSE "serving"]
    /\ UNCHANGED <<token, gtCheck, tokReqs, sent, renewed, req, resp>>

\* RefreshToken returns to NewTokenManager: its error is logged and dropped
\* (lines 48-52) and main() goes on to http.ListenAndServe (line 453)
NtRet(p) ==
    /\ caller[p] = "nt"
    /\ RtUnlock(p)
    /\ pc' = [pc EXCEPT ![p] = "serving"]
    /\ UNCHANGED <<token, gtCheck, tokReqs, sent, renewed, req, resp>>

\* ---------------------------------------------------------- GetToken
\* tm.mutex.RLock() (line 57)
GtRLock(p) ==
    /\ pc[p] = "gt_rlock"
    /\ CanRLock(p)
    /\ readers' = readers \cup {p}
    /\ fresh' = fresh \ {p}
    /\ gtCheck' = [gtCheck EXCEPT ![p] = "none"]
    /\ tokReqs' = [tokReqs EXCEPT ![p] = 0]
    /\ pc' = [pc EXCEPT ![p] = "gt_check"]
    /\ UNCHANGED <<tmVars, writer, clockVars, textVars, caller, rtErr, rtResp, saved, token,
                   sent, renewed, req, resp>>

\* tm.accessToken == "" || time.Now().Add(5*time.Minute).After(tm.expiry) (line 59)
NeedsRefresh == accessToken = 0 \/ now + BufferMinutes > expiry

\* (mutant) GetToken calls RefreshToken without dropping the read lock
C6_GtCheckKeepsReadLock(p) ==
    /\ pc[p] = "gt_check"
    /\ IF NeedsRefresh
         THEN /\ gtCheck' = [gtCheck EXCEPT ![p] = IF accessToken = 0 THEN "empty" ELSE "stale"]
              /\ caller' = [caller EXCEPT ![p] = "gt"]
              /\ pc' = [pc EXCEPT ![p] = "rt_lock"]
              /\ UNCHANGED <<token, readers>>
         ELSE /\ gtCheck' = [gtCheck EXCEPT ![p] = "valid"]
              /\ token' = [token EXCEPT ![p] = accessToken]
              /\ readers' = readers \ {p}
              /\ pc' = [pc EXCEPT ![p] = "fc_send"]
              /\ UNCHANGED caller
    /\ UNCHANGED <<tmVars, writer, clockVars, textVars, rtErr, rtResp, saved, fresh, tokReqs, sent, renewed,
                   req, resp>>

\* the check under the read lock: either the lock is dropped and
\* RefreshToken called (lines 60-61), or the token is read and returned
\* (lines 67-69)
GtCheck(p) ==
    /\ pc[p] = "gt_check"
    /\ readers' = readers \ {p}
    /\ IF NeedsRefresh
         THEN /\ gtCheck' = [gtCheck EXCEPT ![p] = IF accessToken = 0 THEN "empty" ELSE "stale"]
              /\ caller' = [caller EXCEPT ![p] = "gt"]
              /\ pc' = [pc EXCEPT ![p] = "rt_lock"]
              /\ UNCHANGED token
         ELSE /\ gtCheck' = [gtCheck EXCEPT ![p] = "valid"]
              /\ token' = [token EXCEPT ![p] = accessToken]
              /\ pc' = [pc EXCEPT ![p] = "fc_send"]
              /\ UNCHANGED caller
    /\ UNCHANGED <<tmVars, writer, clockVars, textVars, rtErr, rtResp, saved, fresh, tokReqs, sent, renewed,
                   req, resp>>

\* (mutant) GetToken drops the error of RefreshToken and reads the token
C5_GtRetIgnoresError(p) ==
    /\ caller[p] = "gt"
    /\ RtUnlock(p)
    /\ pc' = [pc EXCEPT ![p] = "gt_rlock2"]
    /\ UNCHANGED <<token, resp, gtCheck, tokReqs, sent, renewed, req>>

\* (mutant) GetToken calls RefreshToken once more when it has failed
C16_GtRetTriesAgain(p) ==
    /\ caller[p] = "gt"
    /\ pc[p] = "rt_unlock"
    /\ writer' = None
    /\ rtErr' = [rtErr EXCEPT ![p] = FALSE]
    /\ rtResp' = [rtResp EXCEPT ![p] = NoResp]
    /\ saved' = [saved EXCEPT ![p] = <<0, 0>>]
    /\ fresh' = IF rtErr[p] THEN fresh \ {p} ELSE fresh
    /\ IF rtErr[p] /\ tokReqs[p] < 2
         THEN /\ pc' = [pc EXCEPT ![p] = "rt_lock"]
              /\ UNCHANGED <<caller, token, resp, gtCheck, tokReqs, sent, renewed>>
         ELSE IF rtErr[p]
         THEN /\ token' = [token EXCEPT ![p] = 0]
              /\ resp' = [resp EXCEPT ![p] =
                            Answer(StatusInternalServerError, "", "", "", "error getting access token")]
              /\ gtCheck' = [gtCheck EXCEPT ![p] = "none"]
              /\ tokReqs' = [tokReqs EXCEPT ![p] = 0]
              /\ sent' = [sent EXCEPT ![p] = 0]
              /\ renewed' = renewed \ {p}
              /\ caller' = [caller EXCEPT ![p] = ""]
              /\ pc' = [pc EXCEPT ![p] = "done"]
         ELSE /\ pc' = [pc EXCEPT ![p] = "gt_rlock2"]
              /\ caller' = [caller EXCEPT ![p] = ""]
              /\ UNCHANGED <<token, resp, gtCheck, tokReqs, sent, renewed>>
    /\ UNCHANGED <<tmVars, readers, clockVars, textVars, req>>

\* RefreshToken returns to GetToken (lines 61-65): on an error GetToken
\* returns ("", err), fetchContentFromBetterMode returns it wrapped (line 237)
\* and getContent answers 500 (line 207)
GtRet(p) ==
    /\ caller[p] = "gt"
    /\ RtUnlock(p)
    /\ IF rtErr[p]
         THEN /\ token' = [token EXCEPT ![p] = 0]
              /\ resp' = [resp EXCEPT ![p] =
                            Answer(StatusInternalServerError, "", "", "", "error getting access token")]
              /\ gtCheck' = [gtCheck EXCEPT ![p] = "none"]
              /\ tokReqs' = [tokReqs EXCEPT ![p] = 0]
              /\ sent' = [sent EXCEPT ![p] = 0]
              /\ renewed' = renewed \ {p}
              /\ pc' = [pc EXCEPT ![p] = "done"]
         ELSE /\ pc' = [pc EXCEPT ![p] = "gt_rlock2"]
              /\ UNCHANGED <<token, resp, gtCheck, tokReqs, sent, renewed>>
    /\ UNCHANGED req

\* tm.mutex.RLock() after the refresh (line 65)
GtRLock2(p) ==
    /\ pc[p] = "gt_rlock2"
    /\ CanRLock(p)
    /\ readers' = readers \cup {p}
    /\ pc' = [pc EXCEPT ![p] = "gt_read"]
    /\ UNCHANGED <<tmVars, writer, clockVars, textVars, caller, rtErr, rtResp, saved, token, gtCheck, tokReqs,
                   fresh, sent, renewed, req, resp>>

\* token := tm.accessToken; tm.mutex.RUnlock(); return token, nil (lines 67-69)
GtRead(p) ==
    /\ pc[p] = "gt_read"
    /\ token' = [token EXCEPT ![p] = accessToken]
    /\ readers' = readers \ {p}
    /\ fresh' = fresh \ {p}
    /\ pc' = [pc EXCEPT ![p] = "fc_send"]
    /\ UNCHANGED <<tmVars, writer, clockVars, textVars, caller, rtErr, rtResp, saved, gtCheck, tokReqs,
                   sent, renewed, req, resp>>

\* ------------------------------------------ fetchContentFromBetterMode
\* the post query is built and sent with "Bearer "+token (lines 241-276)
FcSend(p) ==
    /\ pc[p] = "fc_send"
    /\ sent' = [sent EXCEPT ![p] = @ + 1]
    /\ renewed' = renewed \ {p}
    /\ gtCheck' = [gtCheck EXCEPT ![p] = "none"]
    /\ tokReqs' = [tokReqs EXCEPT ![p] = 0]
    /\ pc' = [pc EXCEPT ![p] = "fc_recv"]
    /\ UNCHANGED <<tmVars, lockVars, clockVars, textVars, caller, rtErr, rtResp, saved, token,
                   fresh, req, resp>>

\* req.Format once the default is applied (lines 197-198)
Format(r) == IF r.format = "" THEN "html" ELSE r.format

\* What fetchContentFromBetterMode returns for an answer other than 401
\* (lines 277-279, 296-323): content, title and error ("" is nil).  The
\* title is returned beside the error when the content field is missing.
FetchResult(c) ==
    IF ~c.net THEN [content |-> "", title |-> "", err |-> "error sending request"]
    ELSE IF ~c.parses THEN [content |-> "", title |-> "", err |-> "error parsing response"]
    ELSE IF c.content = "" THEN [content |-> "", title |-> c.title, err |-> "content field not found"]
    ELSE [content |-> c.content, title |-> c.title, err |-> ""]

\* The HTTP answer getContent makes of it (lines 205-228): on an error
\* http.Error writes the error text alone, the title is dropped.
FetchAnswer(r, c) ==
    IF FetchResult(c).err # ""
      THEN Answer(StatusInternalServerError, "", "", "", FetchResult(c).err)
      ELSE Answer(StatusOK, FetchResult(c).content, FetchResult(c).title, r.format, "")

\* the upstream's answer arrives (line 276): a 401 forces RefreshToken
\* (lines 283-286), anything else ends the fetch and getContent answers
FcRecv(p, c) ==
    /\ pc[p] = "fc_recv"
    /\ (c.net /\ c.status = StatusUnauthorized) => sent[p] <= MaxUnauth
    /\ IF c.net /\ c.status = StatusUnauthorized
         THEN /\ caller' = [caller EXCEPT ![p] = "fc"]
              /\ pc' = [pc EXCEPT ![p] = "rt_lock"]
              /\ UNCHANGED <<resp, token, gtCheck, tokReqs, sent, renewed>>
         ELSE /\ resp' = [resp EXCEPT ![p] = FetchAnswer(req[p], c)]
              /\ token' = [token EXCEPT ![p] = 0]
              /\ gtCheck' = [gtCheck EXCEPT ![p] = "none"]
              /\ sent' = [sent EXCEPT ![p] = 0]
              /\ renewed' = renewed \ {p}
              /\ pc' = [pc EXCEPT ![p] = "done"]
              /\ UNCHANGED caller
    /\ UNCHANGED <<tmVars, lockVars, clockVars, textVars, rtErr, rtResp, saved, fresh, tokReqs, req>>

\* (mutant) the fetch retries whether or not the forced refresh succeeded
C8_FcRetRetriesAnyway(p) ==
    /\ caller[p] = "fc"
    /\ RtUnlock(p)
    /\ pc' = [pc EXCEPT ![p] = "gt_rlock"]
    /\ UNCHANGED <<resp, token, gtCheck, tokReqs, sent, renewed, req>>

\* (mutant) after the forced refresh the request is sent again as it was
\* built, with the token the fetch already holds
C19_FcRetSendsAgain(p) ==
    /\ caller[p] = "fc"
    /\ RtUnlock(p)
    /\ IF rtErr[p]
         THEN /\ resp' = [resp EXCEPT ![p] =
                            Answer(StatusInternalServerError, "", "", "", "failed to refresh token")]
              /\ token' = [token EXCEPT ![p] = 0]
              /\ sent' = [sent EXCEPT ![p] = 0]
              /\ renewed' = renewed \ {p}
              /\ pc' = [pc EXCEPT ![p] = "done"]
         ELSE /\ pc' = [pc EXCEPT ![p] = "fc_send"]
              /\ UNCHANGED <<resp, token, sent, renewed>>
    /\ UNCHANGED <<gtCheck, tokReqs, req>>

\* the forced RefreshToken returns (lines 286-292): its error ends the
\* fetch, otherwise fetchContentFromBetterMode calls itself
FcRet(p) ==
    /\ caller[p] = "fc"
    /\ RtUnlock(p)
    /\ IF rtErr[p]
         THEN /\ resp' = [resp EXCEPT ![p] =
                            Answer(StatusInternalServerError, "", "", "", "failed to refresh token")]
              /\ token' = [token EXCEPT ![p] = 0]
              /\ gtCheck' = [gtCheck EXCEPT ![p] = "none"]
              /\ sent' = [sent EXCEPT ![p] = 0]
              /\ renewed' = renewed \ {p}
              /\ pc' = [pc EXCEPT ![p] = "done"]
              /\ UNCHANGED tokReqs
         ELSE /\ pc' = [pc EXCEPT ![p] = "gt_rlock"]
              /\ UNCHANGED <<resp, token, gtCheck, tokReqs, sent, renewed>>
    /\ UNCHANGED req

\* -------------------------------------------------------- getContent
\* (mutant) the format of the request is not checked
C9_ValidRequestNoFormatCheck(r) == r.decodes /\ r.post_id # ""

\* the request passes the checks of lines 186-202
ValidRequest(r) == r.decodes /\ r.post_id # "" /\ Format(r) \in {"html", "text"}

\* POST /content: decode and validate (lines 185-202), the default format
\* being written into req.Format (line 198), then start the fetch (line
\* 205), whose first statement is the GetToken call (line 235)
GetContent(p, r) ==
    /\ Serving
    /\ pc[p] = "idle"
    /\ IF ValidRequest(r)
         THEN /\ req' = [req EXCEPT ![p] = [r EXCEPT !.format = Format(r)]]
              /\ pc' = [pc EXCEPT ![p] = "gt_rlock"]
              /\ UNCHANGED resp
         ELSE /\ req' = [req EXCEPT ![p] = r]
              /\ resp' = [resp EXCEPT ![p] = Answer(StatusBadRequest, "", "", "", "bad request")]
              /\ pc' = [pc EXCEPT ![p] = "done"]
    /\ UNCHANGED <<tmVars, lockVars, clockVars, textVars, caller, rtErr, rtResp, saved, token,
                   gtCheck, tokReqs, fresh, sent, renewed>>

\* ------------------------------------------------- handleTokenRefresh
\* GET /token/refresh calls RefreshToken (line 459)
HandleTokenRefresh(p) ==
    /\ Serving
    /\ pc[p] = "idle"
    /\ req' = [req EXCEPT ![p] = [op |-> "refresh", decodes |-> TRUE, post_id |-> "", format |-> ""]]
    /\ caller' = [caller EXCEPT ![p] = "hr"]
    /\ pc' = [pc EXCEPT ![p] = "rt_lock"]
    /\ UNCHANGED <<tmVars, lockVars, clockVars, textVars, rtErr, rtResp, saved, token, gtCheck, tokReqs,
                   fresh, sent, renewed, resp>>

\* RefreshToken returns to the handler, which answers (lines 459-468)
HrRet(p) ==
    /\ caller[p] = "hr"
    /\ RtUnlock(p)
    /\ resp' = [resp EXCEPT ![p] =
                  IF rtErr[p]
                    THEN Answer(StatusInternalServerError, "", "", "", "Failed to refresh token")
                    ELSE Answer(StatusOK, "", "", "", "")]
    /\ pc' = [pc EXCEPT ![p] = "done"]
    /\ UNCHANGED <<token, gtCheck, tokReqs, sent, renewed, req>>

\* -------------------------------------------------- handleTokenStatus
\* The text of a token: the empty string for 0, and for the issued token t
\* a string of 9 + t characters (so that tokens of 10 and of more than 10
\* characters both occur).
TokenText(t) == [i \in 1..(IF t = 0 THEN 0 ELSE 9 + t) |-> t]

Ellipsis == <<".", ".", ".">>

\* (mutant) the preview is given for tokens of 10 characters too
C13_TokenPreviewFromTen(t) ==
    IF Len(TokenText(t)) >= 10 THEN SubSeq(TokenText(t), 1, 10) \o Ellipsis ELSE <<>>

\* tokenPreview (lines 478-481)
TokenPreview(t) ==
    IF Len(TokenText(t)) > 10 THEN SubSeq(TokenText(t), 1, 10) \o Ellipsis ELSE <<>>

\* GET /token/status: the handler is called (line 472)
HandleTokenStatus(p) ==
    /\ Serving
    /\ pc[p] = "idle"
    /\ req' = [req EXCEPT ![p] = [op |-> "status", decodes |-> TRUE, post_id |-> "", format |-> ""]]
    /\ pc' = [pc EXCEPT ![p] = "st_rlock"]
    /\ UNCHANGED <<tmVars, lockVars, clockVars, textVars, caller, rtErr, rtResp, saved, token,
                   gtCheck, tokReqs, fresh, sent, renewed, resp>>

\* tokenManager.mutex.RLock() (line 474)
StRLock(p) ==
    /\ pc[p] = "st_rlock"
    /\ CanRLock(p)
    /\ readers' = readers \cup {p}
    /\ pc' = [pc EXCEPT ![p] = "st_read"]
    /\ UNCHANGED <<tmVars, writer, clockVars, textVars, caller, rtErr, rtResp, saved, token,
                   gtCheck, tokReqs, fresh, sent, renewed, req, resp>>

\* (mutant) is_valid is reported with GetToken's 5-minute buffer
C20_StReadWithBuffer(p) ==
    /\ pc[p] = "st_read"
    /\ resp' = [resp EXCEPT ![p] =
                  [status |-> StatusOK, content |-> "", title |-> "", format |-> "", err |-> "",
                   token_preview |-> TokenPreview(accessToken),
                   expiry |-> expiry, is_valid |-> now + BufferMinutes < expiry]]
    /\ readers' = readers \ {p}
    /\ pc' = [pc EXCEPT ![p] = "done"]
    /\ UNCHANGED <<tmVars, writer, clockVars, textVars, caller, rtErr, rtResp, saved, token,
                   gtCheck, tokReqs, fresh, sent, renewed, req>>

\* the status is rendered (lines 478-489) and the deferred RUnlock runs (475)
StRead(p) ==
    /\ pc[p] = "st_read"
    /\ resp' = [resp EXCEPT ![p] =
                  [status |-> StatusOK, content |-> "", title |-> "", format |-> "", err |-> "",
                   token_preview |-> TokenPreview(accessToken),
                   expiry |-> expiry, is_valid |-> now < expiry]]
    /\ readers' = readers \ {p}
    /\ pc' = [pc EXCEPT ![p] = "done"]
    /\ UNCHANGED <<tmVars, writer, clockVars, textVars, caller, rtErr, rtResp, saved, token, gtCheck, tokReqs,
                   fresh, sent, renewed, req>>

\* the handler has returned; the goroutine serves the next request
Finish(p) ==
    /\ pc[p] = "done"
    /\ pc' = [pc EXCEPT ![p] = "idle"]
    /\ req' = [req EXCEPT ![p] = NoReq]
    /\ resp' = [resp EXCEPT ![p] = NoAnswer]
    /\ UNCHANGED <<tmVars, lockVars, clockVars, textVars, caller, rtErr, rtResp, saved, token,
                   gtCheck, tokReqs, fresh, sent, renewed>>

\* ------------------------------------------------------ specification
\* main(): NewTokenManager's RefreshToken, then ListenAndServe
MainStep(TR) ==
    \/ RtLock(Main)
    \/ RtSend(Main)
    \/ \E r \in TR : RtRecv(Main, r)
    \/ RtExpiry(Main)
    \/ NtRet(Main)

\* a handler goroutine takes a request off the router (lines 435-441)
Accept(p) ==
    \/ \E r \in ContentRequests : GetContent(p, r)
    \/ HandleTokenRefresh(p)
    \/ HandleTokenStatus(p)

\* a handler goroutine's step inside a request; TR is what the upstream may
\* answer to a token request
HandlerStep(p, TR) ==
    \/ RtLock(p)
    \/ RtSend(p)
    \/ \E r \in TR : RtRecv(p, r)
    \/ RtExpiry(p)
    \/ GtRLock(p)
    \/ GtCheck(p)
    \/ GtRet(p)
    \/ GtRLock2(p)
    \/ GtRead(p)
    \/ FcSend(p)
    \/ \E c \in ContentResponses : FcRecv(p, c)
    \/ FcRet(p)
    \/ HrRet(p)
    \/ StRLock(p)
    \/ StRead(p)

Next ==
    \/ \E d \in TickSteps : Tick(d)
    \/ MainStep(TokenResponses)
    \/ \E p \in Handlers : Accept(p)
    \/ \E p \in Handlers : HandlerStep(p, TokenResponses)
    \/ \E p \in Handlers : Finish(p)

\* The program: main() passes "www.gpters.org" to NewTokenManager (line 418).
Spec == Init /\ [][Next]_vars

\* NewTokenManager called with any domain.
InitAnyDomain == InitFor(Domains)

SpecAnyDomain == InitAnyDomain /\ [][Next]_vars

\* One request per handler goroutine, with an upstream that may fail the
\* token request of NewTokenManager and issues a token for every later one.
\* The Go scheduler runs every goroutine that can take a step, and the
\* upstream answers every request: weak fairness of each goroutine's steps.
NextIssuing ==
    \/ \E d \in TickSteps : Tick(d)
    \/ MainStep(TokenResponses)
    \/ \E p \in Handlers : Accept(p)
    \/ \E p \in Handlers : HandlerStep(p, TokenIssued)

SpecIssuing ==
    /\ Init
    /\ [][NextIssuing]_vars
    /\ WF_vars(MainStep(TokenResponses))
    /\ \A p \in Handlers : WF_vars(HandlerStep(p, TokenIssued))

\* One request per handler goroutine, within the minute the process
\* started in, with an upstream that answers every request, with a token or
\* with any of the failures.  The Go scheduler runs every goroutine that
\* can take a step: weak fairness of each goroutine's steps.
NextAnswering ==
    \/ MainStep(TokenResponses)
    \/ \E p \in Handlers : Accept(p)
    \/ \E p \in Handlers : HandlerStep(p, TokenResponses)

SpecAnswering ==
    /\ Init
    /\ [][NextAnswering]_vars
    /\ WF_vars(MainStep(TokenResponses))
    /\ \A p \in Handlers : WF_vars(HandlerStep(p, TokenResponses))

\* ====================================================================
\* Content processing: cleanupContent, unescapeUnicodeJSON, stripHTMLTags
\* ====================================================================
\* A text is a sequence of one-character strings.

\* ------------------------------------------------------------ bounds
MaxPieces  == 2         \* pieces an input text is made of
MaxApplied == 2         \* functions applied to one input, one after another

\* the pieces input texts are made of
Pieces ==
    { <<"&", "a", "m", "p", ";">>, <<"a", "m", "p", ";">>,
      <<"&", "l", "t", ";">>, <<"l", "t", ";">>,
      <<"&", "n", "b", "s", "p", ";">>, <<"q", "u", "o", "t", ";">>,
      <<"<", "b", ">">>, <<"<">>, <<">">>,
      <<" ">>, <<"x">>, <<"\n">>, <<"\"">>, <<"\\">> }

\* "<p>Hello <b>World</b></p>"
ExampleHTML ==
    <<"<", "p", ">", "H", "e", "l", "l", "o", " ", "<", "b", ">", "W", "o", "r", "l", "d",
      "<", "/", "b", ">", "<", "/", "p", ">">>

RECURSIVE Texts(_)
\* the texts made of at most n pieces
Texts(n) ==
    IF n = 0 THEN {<<>>}
    ELSE Texts(n - 1) \cup {t \o q : t \in Texts(n - 1), q \in Pieces}

TextInputs == Texts(MaxPieces) \cup {ExampleHTML}

\* strings.HasPrefix(s, old)
HasPrefix(s, old) == Len(s) >= Len(old) /\ SubSeq(s, 1, Len(old)) = old

RECURSIVE ReplaceAll(_, _, _)
\* strings.ReplaceAll(s, old, new), old not empty: the non-overlapping
\* occurrences of old, found from the left, are replaced
ReplaceAll(s, old, new) ==
    IF Len(s) < Len(old) THEN s
    ELSE IF HasPrefix(s, old)
      THEN new \o ReplaceAll(SubSeq(s, Len(old) + 1, Len(s)), old, new)
      ELSE <<s[1]>> \o ReplaceAll(Tail(s), old, new)

RECURSIVE Contains(_, _)
\* strings.Contains(s, sub)
Contains(s, sub) ==
    IF Len(s) < Len(sub) THEN FALSE
    ELSE HasPrefix(s, sub) \/ Contains(Tail(s), sub)

\* the surrounding quotes are removed (lines 329-331)
TrimQuotes(s) ==
    IF Len(s) > 2 /\ s[1] = "\"" /\ s[Len(s)] = "\"" THEN SubSeq(s, 2, Len(s) - 1) ELSE s

RECURSIVE QuoteBody(_)
\* strconv.Quote(s) between its quotes: backslash, quote and newline are
\* escaped, the other characters of the alphabet are printable
QuoteBody(s) ==
    IF s = <<>> THEN <<>>
    ELSE (CASE s[1] = "\\" -> <<"\\", "\\">>
            [] s[1] = "\"" -> <<"\\", "\"">>
            [] s[1] = "\n" -> <<"\\", "n">>
            [] OTHER -> <<s[1]>>) \o QuoteBody(Tail(s))

\* strconv.Quote(s) (line 366)
Quote(s) == <<"\"">> \o QuoteBody(s) \o <<"\"">>

\* the character a JSON escape stands for
Unescaped(c) == IF c = "n" THEN "\n" ELSE c

RECURSIVE JSONBody(_)
\* encoding/json on the inside of a string literal: the escapes \\ \" \/ \n
\* are decoded, any other escape, a bare quote and a bare control character
\* are syntax errors
JSONBody(b) ==
    IF b = <<>> THEN [ok |-> TRUE, val |-> <<>>]
    ELSE IF b[1] = "\\"
      THEN IF Len(b) < 2 \/ b[2] \notin {"\\", "\"", "/", "n"}
             THEN [ok |-> FALSE, val |-> <<>>]
             ELSE LET r == JSONBody(SubSeq(b, 3, Len(b)))
                  IN  [ok |-> r.ok, val |-> <<Unescaped(b[2])>> \o r.val]
    ELSE IF b[1] \in {"\"", "\n"}
      THEN [ok |-> FALSE, val |-> <<>>]
      ELSE LET r == JSONBody(Tail(b))
           IN  [ok |-> r.ok, val |-> <<b[1]>> \o r.val]

\* json.Unmarshal of {"content": q} (line 373), q a quoted string
JSONString(q) ==
    IF Len(q) < 2 \/ q[1] # "\"" \/ q[Len(q)] # "\"" THEN [ok |-> FALSE, val |-> <<>>]
    ELSE JSONBody(SubSeq(q, 2, Len(q) - 1))

\* unescapeUnicodeJSON (lines 364-379) as cleanupContent uses it (lines
\* 341-343): the decoded text, or s again when decoding fails
unescapeUnicodeJSON(s) ==
    LET r == JSONString(Quote(s))
    IN  IF r.ok THEN r.val ELSE s

\* htmlReplacements (lines 346-354), the entries numbered as written
htmlReplacements ==
    << [escaped |-> <<"&", "n", "b", "s", "p", ";">>, unescaped |-> <<" ">>],
       [escaped |-> <<"&", "a", "m", "p", ";">>, unescaped |-> <<"&">>],
       [escaped |-> <<"&", "l", "t", ";">>, unescaped |-> <<"<">>],
       [escaped |-> <<"&", "g", "t", ";">>, unescaped |-> <<">">>],
       [escaped |-> <<"&", "q", "u", "o", "t", ";">>, unescaped |-> <<"\"">>],
       [escaped |-> <<"&", "#", "3", "9", ";">>, unescaped |-> <<"'">>],
       [escaped |-> <<"&", "a", "p", "o", "s", ";">>, unescaped |-> <<"'">>] >>

\* cleanupContent up to its range loop (lines 329-343)
CleanupHead(s) == unescapeUnicodeJSON(ReplaceAll(TrimQuotes(s), <<"\\", "\"">>, <<"\"">>))

\* cleanupContent is called (line 212): the quotes and escapes are handled
\* and the range loop over htmlReplacements begins
CleanupStart ==
    /\ todo = {}
    /\ Len(applied) < MaxApplied
    /\ prev' = text
    /\ text' = CleanupHead(text)
    /\ todo' = DOMAIN htmlReplacements
    /\ UNCHANGED <<progVars, input, applied>>

\* one iteration of the range loop (lines 356-358): Go visits the keys of a
\* map in an order that is not specified, so any key not yet visited may be
\* the next; after the last one cleanupContent returns (line 360)
CleanupRange(k) ==
    /\ k \in todo
    /\ text' = ReplaceAll(text, htmlReplacements[k].escaped, htmlReplacements[k].unescaped)
    /\ todo' = todo \ {k}
    /\ applied' = IF todo = {k} THEN Append(applied, "cleanupContent") ELSE applied
    /\ UNCHANGED <<progVars, input, prev>>

RECURSIVE C15_StripScanKeepsInside(_, _)
\* (mutant) a scan that drops "<" and ">" but writes what stands between them
C15_StripScanKeepsInside(s, inTag) ==
    IF s = <<>> THEN <<>>
    ELSE IF s[1] = "<" THEN C15_StripScanKeepsInside(Tail(s), TRUE)
    ELSE IF s[1] = ">" THEN <<" ">> \o C15_StripScanKeepsInside(Tail(s), FALSE)
    ELSE <<s[1]>> \o C15_StripScanKeepsInside(Tail(s), inTag)

RECURSIVE StripScan(_, _)
\* the scan of stripHTMLTags (lines 387-401): "<" opens a tag, ">" closes it
\* and writes a space, a character outside a tag is written
StripScan(s, inTag) ==
    IF s = <<>> THEN <<>>
    ELSE IF s[1] = "<" THEN StripScan(Tail(s), TRUE)
    ELSE IF s[1] = ">" THEN <<" ">> \o StripScan(Tail(s), FALSE)
    ELSE IF inTag THEN StripScan(Tail(s), TRUE)
    ELSE <<s[1]>> \o StripScan(Tail(s), FALSE)

RECURSIVE CollapseSpaces(_)
\* for strings.Contains(text, "  ") { text = ReplaceAll(text, "  ", " ") }
\* (lines 409-411)
CollapseSpaces(s) ==
    IF Contains(s, <<" ", " ">>) THEN CollapseSpaces(ReplaceAll(s, <<" ", " ">>, <<" ">>))
    ELSE s

\* the characters strings.TrimSpace removes
Whitespace == {" ", "\n"}

RECURSIVE TrimLeft(_)
TrimLeft(s) == IF s # <<>> /\ s[1] \in Whitespace THEN TrimLeft(Tail(s)) ELSE s

RECURSIVE TrimRight(_)
TrimRight(s) ==
    IF s # <<>> /\ s[Len(s)] \in Whitespace THEN TrimRight(SubSeq(s, 1, Len(s) - 1)) ELSE s

\* strings.TrimSpace (line 413)
TrimSpace(s) == TrimRight(TrimLeft(s))

\* stripHTMLTags (lines 382-414)
stripHTMLTags(html) ==
    TrimSpace(CollapseSpaces(
        ReplaceAll(ReplaceAll(StripScan(html, FALSE),
                              <<"&", "n", "b", "s", "p", ";">>, <<" ">>),
                   <<"\n", "\n">>, <<"\n">>)))

\* stripHTMLTags is called (line 216)
Strip ==
    /\ todo = {}
    /\ Len(applied) < MaxApplied
    /\ prev' = text
    /\ text' = stripHTMLTags(text)
    /\ applied' = Append(applied, "stripHTMLTags")
    /\ UNCHANGED <<progVars, input, todo>>

\* A text is given and the two functions are applied to it, in any order
\* and repeatedly; the gateway itself is not running.
InitText ==
    /\ InitProgram({MainDomain})
    /\ input \in TextInputs
    /\ prev = input
    /\ text = input
    /\ applied = <<>>
    /\ todo = {}

NextText ==
    \/ CleanupStart
    \/ \E k \in DOMAIN htmlReplacements : CleanupRange(k)
    \/ Strip

SpecText == InitText /\ [][NextText]_vars

\* ====================================================================
\* Properties
\* ====================================================================

\* the goroutines whose token-issuance request is in flight
TokenRequestsInFlight == {p \in Procs : pc[p] = "rt_recv"}

\* the goroutines between RefreshToken's Lock and its deferred Unlock
InRefresh == {p \in Procs : pc[p] \in {"rt_send", "rt_recv", "rt_expiry", "rt_unlock"}}

\* C1: at most one upstream token-issuance request is in flight at any
\* instant, and a goroutine inside RefreshToken, from before it sends the
\* request until it returns, is the holder of the write lock.
C1_OneRefreshInFlight ==
    /\ Cardinality(TokenRequestsInFlight) <= 1
    /\ \A p \in InRefresh : writer = p

\* a token request is in flight while another caller waits for the lock
C1_Witness ==
    \E p, q \in Handlers : p # q /\ pc[p] = "rt_recv" /\ pc[q] = "rt_lock"

\* C2: one POST /content sends at most two content requests to the
\* upstream (one retry after a 401), whatever the upstream answers.
C2_AtMostTwoContentRequests == \A p \in Handlers : sent[p] <= 2

\* C3: a RefreshToken that returns an error leaves the Credential as it was
\* when the call took the lock: as it returns, token and expiry are those.
C3_FailedRefreshKeepsCredential ==
    [][\A p \in Procs :
          (pc[p] = "rt_unlock" /\ rtErr[p] /\ pc'[p] # "rt_unlock")
              => <<accessToken', expiry'>> = saved[p]]_vars

\* a refresh has failed while a token was stored
C3_Witness ==
    \E p \in Handlers : pc[p] = "rt_unlock" /\ rtErr[p] /\ saved[p][1] # 0

\* what the claim C4 counts as a failed token answer
C4_FailureCase(r) ==
    ~r.net \/ ~r.read \/ r.status # StatusOK \/ ~r.parses \/ r.accessToken = 0

\* C4: after a network error, a non-200 status, a malformed body or an
\* empty accessToken field RefreshToken returns an error and the stored
\* token and expiry are untouched.
C4_FailureCasesRejected ==
    \A p \in Procs :
        (pc[p] \in {"rt_expiry", "rt_unlock"} /\ C4_FailureCase(rtResp[p]))
            => (rtErr[p] /\ <<accessToken, expiry>> = saved[p])

\* One step of GetToken's caller p, as C5 requires it: a GetToken that
\* returns without error returns the stored token, non-empty, whose expiry
\* is late enough at the check (strictly or not) or which a refresh stored
\* during the call; a
\* GetToken whose refresh failed returns the empty token and the error.
C5_Step(p, strict) ==
    /\ (pc[p] = "gt_check" /\ pc'[p] = "fc_send")
          => /\ token'[p] # 0
             /\ token'[p] = accessToken
             /\ IF strict THEN expiry > now + BufferMinutes
                          ELSE expiry >= now + BufferMinutes
    /\ (pc[p] = "gt_read" /\ pc'[p] = "fc_send")
          => (token'[p] # 0 /\ token'[p] = accessToken /\ p \in fresh)
    /\ (caller[p] = "gt" /\ pc[p] = "rt_unlock" /\ rtErr[p] /\ pc'[p] # "rt_unlock")
          => (token'[p] = 0 /\ pc'[p] = "done"
              /\ resp'[p].status = StatusInternalServerError)

C6_Returned(p) == pc[p] = "fc_send" /\ gtCheck[p] = "empty"

\* C6 (as claimed): two GetToken calls started while the Credential is
\* empty return the same token value.
C6_SameToken ==
    \A p, q \in Handlers : (C6_Returned(p) /\ C6_Returned(q)) => token[p] = token[q]

\* C6 (amended): a GetToken call started while the Credential is empty,
\* running beside other such calls, eventually returns, and returns a token
\* the upstream issued (the values two calls return may differ).
C6_BothReturnIssuedTokens ==
    \A p \in Handlers :
        (pc[p] = "rt_lock" /\ gtCheck[p] = "empty")
            ~> (C6_Returned(p) /\ token[p] \in Tokens)

\* two calls started while the Credential was empty have both returned
C6_Witness ==
    \E p, q \in Handlers : p # q /\ C6_Returned(p) /\ C6_Returned(q)

\* a refresh has stored its token (line 134) and not yet its expiry (138)
CredentialTorn == \E q \in Procs : pc[q] = "rt_expiry"

\* C7: every read of the Credential is made under the read lock, no reader
\* holds it while a writer holds the write lock, and a reader never sees
\* the token of a refresh whose expiry is not stored yet.
C7_ReadersSeeWholeCredential ==
    /\ \A p \in Procs : pc[p] \in {"gt_check", "gt_read", "st_read"} => p \in readers
    /\ \A p \in readers : writer = None /\ ~CredentialTorn

\* several readers hold the read lock at the same time
C7_Witness == Cardinality(readers) >= 2 /\ accessToken # 0

\* C8: when the RefreshToken forced by a 401 fails, the fetch ends at once:
\* getContent answers 500 and no further content request is sent.
C8_FailedForcedRefreshEndsFetch ==
    [][\A p \in Handlers :
          (caller[p] = "fc" /\ pc[p] = "rt_unlock" /\ rtErr[p] /\ pc'[p] # "rt_unlock")
              => /\ pc'[p] = "done"
                 /\ resp'[p].status = StatusInternalServerError
                 /\ resp'[p].err = "failed to refresh token"]_vars

\* a fetch has ended on a failed forced refresh
C8_Witness ==
    \E p \in Handlers : pc[p] = "done" /\ resp[p].err = "failed to refresh token"

\* a POST /content request that must be rejected
C9_Invalid(r) ==
    r.op = "content" /\ (~r.decodes \/ r.post_id = "" \/ r.format \notin {"", "html", "text"})

\* C9: a POST /content request that fails validation is answered 400 and no
\* step of a fetch is ever taken for it: it is never in GetToken, in
\* RefreshToken or at a content request.
C9_InvalidRequestRejected ==
    \A p \in Handlers :
        C9_Invalid(req[p])
            => /\ pc[p] = "done"
               /\ resp[p].status = StatusBadRequest
               /\ sent[p] = 0
               /\ caller[p] = ""

\* a decodable request with a post_id and an unknown format was rejected
C9_Witness ==
    \E p \in Handlers :
        /\ req[p].decodes /\ req[p].post_id # "" /\ req[p].format = "xml"
        /\ pc[p] = "done"

\* C10: the domain named in the token-issuance query in flight is the
\* manager's networkDomain.
C10_QueryNamesManagerDomain ==
    \A p \in TokenRequestsInFlight : TokenQueryDomain = networkDomain

\* C11: a failed RefreshToken in NewTokenManager leaves the Credential empty
\* and main() goes on to serve; a GetToken call that then finds the
\* Credential empty calls RefreshToken, which sends a token request without
\* a second look at the Credential, and when the request is answered with a
\* token the call returns the token the Credential holds, a token the
\* upstream issued and a refresh stored during the call, after one request.
C11_StartupFailureThenRefresh ==
    [][/\ (caller[Main] = "nt" /\ pc[Main] = "rt_unlock" /\ rtErr[Main]
            /\ pc'[Main] # "rt_unlock")
           => (pc'[Main] = "serving" /\ accessToken' = 0 /\ expiry' = 0)
       /\ \A p \in Handlers :
            /\ (pc[p] = "gt_check" /\ accessToken = 0 /\ pc'[p] # "gt_check")
                  => (pc'[p] = "rt_lock" /\ caller'[p] = "gt" /\ tokReqs'[p] = 0)
            /\ (caller[p] = "gt" /\ gtCheck[p] = "empty" /\ pc[p] = "rt_lock"
                 /\ pc'[p] # "rt_lock")
                  => pc'[p] = "rt_send"
            /\ (caller[p] = "gt" /\ gtCheck[p] = "empty" /\ pc[p] = "rt_send"
                 /\ pc'[p] # "rt_send")
                  => (pc'[p] = "rt_recv" /\ tokReqs'[p] = 1)
            /\ (gtCheck[p] = "empty" /\ pc[p] = "gt_read" /\ pc'[p] # "gt_read")
                  => /\ pc'[p] = "fc_send"
                     /\ token'[p] = accessToken
                     /\ token'[p] \in Tokens
                     /\ p \in fresh
                     /\ tokReqs'[p] = 1]_vars

\* the token request of NewTokenManager failed, the process serves, and the
\* first GetToken call has returned a token
C11_Witness ==
    \E p \in Handlers :
        /\ Serving /\ pc[p] = "fc_send" /\ gtCheck[p] = "empty" /\ tokReqs[p] = 1
        /\ token[p] \in Tokens
        /\ \A q \in Handlers \ {p} : pc[q] = "idle"

\* the upstream answers for which the fetch finds no content field
C12_NoContent(c) == c.net /\ c.status # StatusUnauthorized /\ c.parses /\ c.content = ""

\* C12: when the upstream answer parses but has no content field, the
\* fetch returns an error with the parsed title beside it, and the answer
\* of POST /content carries that title.
C12_TitleReachesClient ==
    [][\A p \in Handlers : \A c \in ContentResponses :
          (C12_NoContent(c) /\ FcRecv(p, c))
              => /\ FetchResult(c).err # ""
                 /\ FetchResult(c).title = c.title
                 /\ resp'[p].title = c.title]_vars

\* the preview C13 describes: nothing for a token of at most 10 characters,
\* else 13 characters, the first 10 of the token and three dots
C13_Preview(t) ==
    IF Len(TokenText(t)) <= 10
      THEN <<>>
      ELSE [i \in 1..13 |-> IF i <= 10 THEN TokenText(t)[i] ELSE "."]

\* C13: GET /token/status answers with a token_preview that is the first 10
\* characters of the stored token and an ellipsis, or empty when the token
\* has at most 10 characters; on an empty Credential the preview is empty
\* and is_valid is false.
C13_StatusPreview ==
    [][\A p \in Handlers :
          (pc[p] = "st_read" /\ pc'[p] # "st_read")
              => /\ resp'[p].status = StatusOK
                 /\ resp'[p].token_preview = C13_Preview(accessToken)
                 /\ accessToken = 0
                       => (resp'[p].token_preview = <<>> /\ ~resp'[p].is_valid)]_vars

\* one status answer was given on the empty Credential, another on a token
\* of more than 10 characters
C13_Witness ==
    \E p, q \in Handlers :
        /\ pc[p] = "done" /\ req[p].op = "status"
        /\ resp[p].token_preview = <<>> /\ ~resp[p].is_valid /\ resp[p].expiry = 0
        /\ pc[q] = "done" /\ req[q].op = "status"
        /\ Len(resp[q].token_preview) = 13 /\ resp[q].is_valid

\* a text with no quote character and no backslash
C14_Plain(s) == \A i \in 1..Len(s) : s[i] \notin {"\"", "\\"}

\* C14: on a text with no quote character and no backslash, a second
\* cleanupContent returns what the first returned.
C14_CleanupIdempotent ==
    (applied = <<"cleanupContent", "cleanupContent">> /\ C14_Plain(input)) => text = prev

\* "Hello World"
C15_ExampleText == <<"H", "e", "l", "l", "o", " ", "W", "o", "r", "l", "d">>

\* position i of s follows a "<" that no ">" has closed yet
C15_Open(s, i) ==
    \E j \in 1..(i - 1) : s[j] = "<" /\ \A k \in (j + 1)..(i - 1) : s[k] # ">"

\* the characters of s that stand between a "<" and the next ">"
C15_InsideChars(s) ==
    {s[i] : i \in {n \in 1..Len(s) :
                     /\ s[n] # ">"
                     /\ C15_Open(s, n)
                     /\ \E m \in (n + 1)..Len(s) : s[m] = ">"}}

\* the characters of s that stand outside every tag
C15_OutsideChars(s) ==
    {s[i] : i \in {n \in 1..Len(s) : s[n] \notin {"<", ">"} /\ ~C15_Open(s, n)}}

\* the characters of s
C15_Chars(s) == {s[i] : i \in 1..Len(s)}

\* C15: what stripHTMLTags returns has no "<" and no ">", none of the
\* characters that stood only inside tags (the space it writes for each ">"
\* apart), no two spaces in a row and no white space at either end; and
\* "<p>Hello <b>World</b></p>" gives "Hello World".
C15_StripResult ==
    (todo = {} /\ applied # <<>> /\ applied[Len(applied)] = "stripHTMLTags")
        => /\ C15_Chars(text) \cap {"<", ">"} = {}
           /\ C15_Chars(text) \cap (C15_InsideChars(prev) \ (C15_OutsideChars(prev) \cup {" "})) = {}
           /\ \A i \in 1..(Len(text) - 1) : ~(text[i] = " " /\ text[i + 1] = " ")
           /\ text # <<>> => (text[1] \notin {" ", "\n"} /\ text[Len(text)] \notin {" ", "\n"})
           /\ prev = ExampleHTML => text = C15_ExampleText

\* stripHTMLTags has been applied to "<p>Hello <b>World</b></p>"
C15_Witness ==
    /\ applied = <<"stripHTMLTags">>
    /\ prev = ExampleHTML
    /\ text = C15_ExampleText

\* One step of GetToken's caller p, as C16 requires it.  At the check the
\* Credential is good when its token is not empty and its expiry is far
\* enough away (more than 5 minutes, or at least 5 minutes): then the call
\* returns having sent no token request; otherwise it calls RefreshToken,
\* which sends one request, and the call returns after that one request,
\* with the error when the request failed.
C16_Step(p, strict) ==
    /\ tokReqs[p] <= 1
    /\ (pc[p] = "gt_check" /\ pc'[p] # "gt_check")
          => IF /\ accessToken # 0
                /\ IF strict THEN expiry > now + BufferMinutes
                             ELSE expiry >= now + BufferMinutes
               THEN pc'[p] = "fc_send" /\ tokReqs'[p] = 0
               ELSE pc'[p] = "rt_lock" /\ caller'[p] = "gt" /\ tokReqs'[p] = 0
    /\ (caller[p] = "gt" /\ pc[p] = "rt_send" /\ pc'[p] # "rt_send")
          => (tokReqs[p] = 0 /\ tokReqs'[p] = 1 /\ pc'[p] = "rt_recv")
    /\ (caller[p] = "gt" /\ pc[p] = "rt_unlock" /\ pc'[p] # "rt_unlock")
          => /\ tokReqs[p] = 1
             /\ IF rtErr[p]
                  THEN /\ pc'[p] = "done"
                       /\ token'[p] = 0
                       /\ resp'[p].status = StatusInternalServerError
                       /\ resp'[p].err = "error getting access token"
                  ELSE pc'[p] = "gt_rlock2"
    /\ (pc[p] = "gt_read" /\ pc'[p] # "gt_read")
          => (pc'[p] = "fc_send" /\ tokReqs'[p] = 1)

C17_EachCallerRefreshes ==
    /\ [][\A p \in Handlers :
             /\ (caller[p] = "gt" /\ pc[p] = "rt_lock" /\ pc'[p] # "rt_lock")
                   => (pc'[p] = "rt_send" /\ writer' = p /\ tokReqs'[p] = 0)
             /\ (caller[p] = "gt" /\ pc[p] = "rt_send" /\ pc'[p] # "rt_send")
                   => /\ pc'[p] = "rt_recv" /\ tokReqs'[p] = 1
                      /\ \A q \in Procs \ {p} : pc'[q] # "rt_recv"]_vars
    /\ \A p \in Handlers :
          (caller[p] = "gt" /\ pc[p] = "rt_lock") ~> (pc[p] = "rt_recv" /\ tokReqs[p] = 1)

\* two callers found the Credential empty; one has refreshed it, and the
\* other, which took the lock on a Credential already good, has sent its
\* own request all the same
C17_Witness ==
    \E p, q \in Handlers :
        /\ p # q /\ gtCheck[p] = "empty" /\ gtCheck[q] = "empty"
        /\ pc[q] \in {"gt_rlock2", "gt_read", "fc_send"} /\ tokReqs[q] = 1
        /\ caller[p] = "gt" /\ pc[p] = "rt_recv" /\ tokReqs[p] = 1
        /\ saved[p][1] # 0 /\ now + BufferMinutes <= saved[p][2]

\* p is inside a GetToken call, a RefreshToken call or handleTokenStatus
C18_InCall(p) ==
    \/ pc[p] \in {"gt_rlock", "gt_check", "gt_rlock2", "gt_read"}
    \/ pc[p] \in {"rt_lock", "rt_send", "rt_recv", "rt_expiry", "rt_unlock"}
    \/ pc[p] \in {"st_rlock", "st_read"}

\* C18: a goroutine holds the read lock only at a read of the Credential
\* inside GetToken or the status handler and the write lock only inside
\* RefreshToken (so none is held when GetToken calls RefreshToken or
\* returns), and a goroutine inside a GetToken, RefreshToken or status call
\* comes to be outside every such call: the call, and any call that
\* follows it at once, returns.
C18_EveryCallReturns ==
    /\ [](\A p \in Procs :
            /\ p \in readers => pc[p] \in {"gt_check", "gt_read", "st_read"}
            /\ writer = p <=> pc[p] \in {"rt_send", "rt_recv", "rt_expiry", "rt_unlock"})
    /\ \A p \in Procs : C18_InCall(p) ~> ~C18_InCall(p)

\* a status caller waits for the lock while the RefreshToken that GetToken
\* called, holding it, is about to return an error
C18_Witness ==
    \E p, q \in Handlers :
        /\ writer = p /\ caller[p] = "gt" /\ pc[p] = "rt_unlock" /\ rtErr[p]
        /\ pc[q] = "st_rlock"

\* C19: a content request is built with the token a GetToken call has just
\* read from the Credential, and when it is the retry after a 401, that
\* Credential was stored by a refresh that completed after the 401 arrived.
C19_RetryCarriesRenewedToken ==
    [][\A p \in Handlers :
          (pc'[p] = "fc_send" /\ pc[p] # "fc_send")
              => /\ pc[p] \in {"gt_check", "gt_read"}
                 /\ p \in readers
                 /\ token'[p] = accessToken
                 /\ sent[p] >= 1 => p \in renewed]_vars

\* a fetch is about to send its request again, with the token of a
\* Credential stored after the 401
C19_Witness ==
    \E p \in Handlers :
        /\ pc[p] = "fc_send" /\ sent[p] = 1 /\ p \in renewed
        /\ token[p] \in Tokens /\ token[p] = accessToken

\* a GetToken call whose check is made now returns the stored token without
\* a refresh
C20_GetTokenKeeps == accessToken # 0 /\ ~(now + BufferMinutes > expiry)

\* C20 (as claimed): whenever the status handler reports is_valid true, a
\* GetToken call at the same instant returns the stored token without a
\* refresh.
C20_StatusAgreesWithGetToken ==
    [][\A p \in Handlers :
          (pc[p] = "st_read" /\ pc'[p] # "st_read")
              => (resp'[p].is_valid => C20_GetTokenKeeps)]_vars

\* C20 (amended): is_valid is true exactly while the stored expiry lies in
\* the future; whenever a GetToken call at the same instant returns the
\* stored token without a refresh, is_valid is true, and is_valid true
\* implies such a return when the expiry is at least 5 minutes away: in the
\* last 5 minutes before the expiry is_valid is true and GetToken refreshes.
C20_StatusWithinBuffer ==
    [][\A p \in Handlers :
          (pc[p] = "st_read" /\ pc'[p] # "st_read")
              => /\ resp'[p].is_valid <=> now < expiry
                 /\ C20_GetTokenKeeps => resp'[p].is_valid
                 /\ (resp'[p].is_valid /\ expiry >= now + BufferMinutes) => C20_GetTokenKeeps
                 /\ (now < expiry /\ expiry < now + BufferMinutes)
                       => (resp'[p].is_valid /\ ~C20_GetTokenKeeps)]_vars

\* the status handler has reported is_valid true at an instant at which a
\* GetToken call has found the same Credential too close to its expiry
C20_Witness ==
    \E p, q \in Handlers :
        /\ pc[p] = "done" /\ req[p].op = "status" /\ resp[p].is_valid
        /\ resp[p].expiry = expiry /\ now < expiry /\ expiry < now + BufferMinutes
        /\ gtCheck[q] = "stale" /\ pc[q] = "rt_lock" /\ saved[q] = <<0, 0>>

RECURSIVE C21_InWrittenOrder(_, _)
\* s after the entries k, k + 1, ... of htmlReplacements have been applied to
\* it, in the order in which the table is written
C21_InWrittenOrder(s, k) ==
    IF k > Len(htmlReplacements) THEN s
    ELSE C21_InWrittenOrder(
             ReplaceAll(s, htmlReplacements[k].escaped, htmlReplacements[k].unescaped), k + 1)

\* C21: whatever the order in which the range loop visits the entries of
\* htmlReplacements, cleanupContent returns the same text for the same
\* input: every run returns what the run in the written order returns.
C21_CleanupDeterministic ==
    (applied = <<"cleanupContent">> /\ todo = {})
        => text = C21_InWrittenOrder(CleanupHead(input), 1)

====
